---- MODULE Spec2Model ----
(***************************************************************************)
(* Model of the Pharmyrus patent-search service (src/main.py): the        *)
(* retrying HTTP fetcher (http_get), the per-identifier resolution with   *)
(* its search fallback (extract_all_countries_from_wo) and the request    *)
(* pipeline that aggregates and merges the records (search_patents).      *)
(***************************************************************************)
EXTENDS Integers, Sequences, FiniteSets, TLC

(***************************************************************************)
(* JSON objects.  A Python dict is a record with a field "keys" (the keys *)
(* present) and one field per key the program reads; d.get(k, default) is *)
(* Get(d, k, default) and the truth value of a dict is Truthy(d).         *)
(***************************************************************************)
Blank ==
    [keys |-> {}, error |-> "", worldwide_applications |-> <<>>,
     family_members |-> <<>>, also_published_as |-> <<>>,
     similar_documents |-> <<>>, citations |-> <<>>,
     organic_results |-> <<>>, data |-> <<>>, access_token |-> "",
     publications |-> [is_list |-> TRUE, items |-> <<>>]]

EmptyDict == Blank

Truthy(d) == d.keys # {}

Get(d, k, default) == IF k \in d.keys THEN d[k] ELSE default

\* {"error": str(e)}
ErrorDict(msg) == [Blank EXCEPT !.keys = {"error"}, !.error = msg]

\* a JSON object with some ordinary content and no "error" key
TitleDict == [Blank EXCEPT !.keys = {"title"}]

\* a 200 response whose JSON carries an "error" key next to its metadata
TitleErrorDict ==
    [Blank EXCEPT !.keys = {"title", "error"}, !.error = "no results"]

(***************************************************************************)
(* http_get: the outcome of one attempt.  kind is what the attempt met,   *)
(* msg is str(e) of the exception raised (a timeout of the transport has  *)
(* an empty message), body is the JSON of a successful response.          *)
(***************************************************************************)
MaxAttempts == 3

FailureKinds == {"rate_limit", "forbidden", "status", "timeout", "bad_body"}

OutcomeKinds == FailureKinds \cup {"ok"}

ExceptionMessages(kind) ==
    CASE kind = "status"   -> {"status error"}
      [] kind = "timeout"  -> {"", "timed out"}
      [] kind = "bad_body" -> {"invalid json"}
      [] OTHER             -> {""}

Failure(kind, msg) == [kind |-> kind, msg |-> msg, body |-> Blank]

Success(body) == [kind |-> "ok", msg |-> "", body |-> body]

FailureOutcomes ==
    UNION {{Failure(k, m) : m \in ExceptionMessages(k)} : k \in FailureKinds}

Outcomes(bodies) == FailureOutcomes \cup {Success(b) : b \in bodies}

\* a power that does not grow
Pow2Flat(n) == 2

\* 2 ** n
RECURSIVE Pow2(_)
Pow2(n) == IF n = 0 THEN 1 ELSE 2 * Pow2(n - 1)

\* an except clause that lets the exception of the last attempt escape
ExceptClauseReraise(att, msg) ==
    IF att < 2
    THEN [ctl |-> "continue", wait |-> 1, value |-> Blank]
    ELSE [ctl |-> "raise", wait |-> 0, value |-> Blank]

\* lines 84-88: the except clause of attempt number `attempt`
ExceptClause(att, msg) ==
    IF att < 2
    THEN [ctl |-> "continue", wait |-> 1, value |-> Blank]
    ELSE [ctl |-> "return", wait |-> 0, value |-> ErrorDict(msg)]

\* a loop body that asks again after a successful first attempt
AttemptStepAskAgain(att, o) ==
    CASE o.kind = "rate_limit" ->
            [ctl |-> "continue", wait |-> Pow2(att + 1), value |-> Blank]
      [] o.kind = "forbidden" ->
            [ctl |-> "continue", wait |-> 1, value |-> Blank]
      [] o.kind = "ok" ->
            IF att = 0
            THEN [ctl |-> "continue", wait |-> 0, value |-> Blank]
            ELSE [ctl |-> "return", wait |-> 0, value |-> o.body]
      [] OTHER -> ExceptClause(att, o.msg)

\* lines 69-88: the body of the loop for attempt number `attempt` (0-based)
AttemptStep(att, o) ==
    CASE o.kind = "rate_limit" ->
            [ctl |-> "continue", wait |-> Pow2(att + 1), value |-> Blank]
      [] o.kind = "forbidden" ->
            [ctl |-> "continue", wait |-> 1, value |-> Blank]
      [] o.kind = "ok" ->
            [ctl |-> "return", wait |-> 0, value |-> o.body]
      [] OTHER -> ExceptClause(att, o.msg)

\* line 89: the loop ran out
LoopExhausted == EmptyDict

(***************************************************************************)
(* http_get as a function of the outcomes its attempts meet.              *)
(***************************************************************************)
RECURSIVE HttpGetFrom(_, _, _)
HttpGetFrom(att, outs, waited) ==
    IF att >= MaxAttempts \/ att >= Len(outs)
    THEN [ret |-> LoopExhausted, raised |-> FALSE, requests |-> att,
          waits |-> waited]
    ELSE LET s == AttemptStep(att, outs[att + 1])
             w == IF s.wait > 0
                  THEN Append(waited, [attempt |-> att, secs |-> s.wait])
                  ELSE waited
         IN  CASE s.ctl = "continue" -> HttpGetFrom(att + 1, outs, w)
               [] s.ctl = "return" ->
                    [ret |-> s.value, raised |-> FALSE,
                     requests |-> att + 1, waits |-> w]
               [] OTHER ->
                    [ret |-> Blank, raised |-> TRUE,
                     requests |-> att + 1, waits |-> w]

HttpGet(outs) == HttpGetFrom(0, outs, <<>>)

(***************************************************************************)
(* Strings the program inspects are sequences of characters; a JSON value *)
(* that should be a string is Str(s) or Null (Python None).               *)
(***************************************************************************)
Str(s) == [t |-> "str", s |-> s]

Null == [t |-> "null", s |-> <<>>]

\* a key the dict does not hold
Absent == [t |-> "absent", s |-> <<>>]

\* the truth value of a string-or-None
TruthyVal(v) == v.t = "str" /\ v.s # <<>>

\* a or b
Or(a, b) == IF TruthyVal(a) THEN a ELSE b

\* s[:n]
Take(s, n) == SubSeq(s, 1, IF Len(s) < n THEN Len(s) ELSE n)

\* s.startswith("BR")
StartsWithBR(s) == Len(s) >= 2 /\ s[1] = "B" /\ s[2] = "R"

\* c.upper() for the letters of the alphabet in use
Upper(c) ==
    CASE c = "b" -> "B"
      [] c = "r" -> "R"
      [] c = "u" -> "U"
      [] c = "s" -> "S"
      [] c = "a" -> "A"
      [] OTHER   -> c

\* re.sub(r'[\s\-/]', '', s)
StripSeparators(s) == SelectSeq(s, LAMBDA c : c \notin {" ", "-", "/"})

\* re.sub(r'[\s\-/]', '', s).upper()   (lines 609, 770, 778, 786)
Normalize(s) == LET t == StripSeparators(s) IN [i \in 1..Len(t) |-> Upper(t[i])]

\* s.replace(" ", "-")
SpaceToHyphen(s) == [i \in 1..Len(s) |-> IF s[i] = " " THEN "-" ELSE s[i]]

\* any(p["document_id"] == doc_id for p in records)
AnyDocId(records, doc_id) == \E i \in 1..Len(records) : records[i].document_id = doc_id

\* x in records
InList(records, x) == \E i \in 1..Len(records) : records[i] = x

(***************************************************************************)
(* Entries of the substructures of a detail payload.  An entry is a JSON  *)
(* object with document_id and publication_number (an absent key reads as *)
(* ""), a plain string, or a value of another type.                       *)
(***************************************************************************)
Doc(id) ==
    [t |-> "dict", s |-> <<>>, document_id |-> Str(id), publication_number |-> Str(<<>>)]

PubDoc(id) ==
    [t |-> "dict", s |-> <<>>, document_id |-> Str(<<>>), publication_number |-> Str(id)]

NullDoc ==
    [t |-> "dict", s |-> <<>>, document_id |-> Null, publication_number |-> Null]

PlainStr(id) ==
    [t |-> "str", s |-> id, document_id |-> Str(<<>>), publication_number |-> Str(<<>>)]

\* one year of worldwide_applications: year -> applications
Bucket(year, is_list, apps) == [year |-> year, is_list |-> is_list, applications |-> apps]

\* a record whose office code is stored in upper case
PatentUpperOffice(doc_id, country, year, source) ==
    [document_id |-> doc_id,
     country |-> [i \in 1..Len(country) |-> Upper(country[i])],
     year |-> year, source |-> source, from_wo |-> ""]

\* a record of worldwide_patents / br_patents / family_members
Patent(doc_id, country, year, source) ==
    [document_id |-> doc_id, country |-> country, year |-> year,
     source |-> source, from_wo |-> ""]

(***************************************************************************)
(* extract_all_countries_from_wo, lines 335-429: the extraction from the  *)
(* payload of the direct method.  The accumulator holds the three lists   *)
(* of the result and whether an exception left the try block.             *)
(***************************************************************************)
NewAcc == [worldwide_patents |-> <<>>, br_patents |-> <<>>,
           family_members |-> <<>>, raised |-> FALSE]

\* s[:n] of a list
Sample(s, n) == SubSeq(s, 1, IF Len(s) < n THEN Len(s) ELSE n)

\* lines 341-357 (and 464-474): one application of one year
AddApplication(year, acc, app) ==
    IF app.t # "dict" THEN [acc EXCEPT !.raised = TRUE]
    ELSE LET id == app.document_id
             rec == Patent(id, IF TruthyVal(id) THEN Take(id.s, 2) ELSE <<>>,
                           year, "worldwide_applications")
             added == [acc EXCEPT !.worldwide_patents = Append(@, rec)]
         IN  IF id.t # "str" THEN [added EXCEPT !.raised = TRUE]
             ELSE IF StartsWithBR(id.s)
                  THEN [added EXCEPT !.br_patents = Append(@, rec)]
                  ELSE added

\* lines 340-357: for app in applications, until an exception leaves the loop
RECURSIVE AddApplications(_, _, _)
AddApplications(year, acc, apps) ==
    IF apps = <<>> \/ acc.raised THEN acc
    ELSE AddApplications(year, AddApplication(year, acc, Head(apps)), Tail(apps))

\* lines 339-357: one year of worldwide.items()
AddYear(acc, bucket) ==
    IF bucket.is_list
    THEN AddApplications(bucket.year, acc, bucket.applications)
    ELSE acc

\* lines 338-357: for year, applications in worldwide.items()
RECURSIVE AddYears(_, _)
AddYears(acc, buckets) ==
    IF buckets = <<>> \/ acc.raised THEN acc
    ELSE AddYears(AddYear(acc, Head(buckets)), Tail(buckets))

\* lines 361-374
AddFamilyMember(acc, member) ==
    IF member.t # "dict" THEN [acc EXCEPT !.raised = TRUE]
    ELSE LET id == Or(member.document_id, member.publication_number)
         IN  IF id.t # "str" THEN [acc EXCEPT !.raised = TRUE]
             ELSE LET rec == Patent(id, Take(id.s, 2), "", "family_members")
                      added == [acc EXCEPT !.family_members = Append(@, rec)]
                  IN  IF StartsWithBR(id.s) /\ ~InList(acc.br_patents, rec)
                      THEN [added EXCEPT !.br_patents = Append(@, rec)]
                      ELSE added

\* lines 361-374: for member in family
RECURSIVE AddFamilyMembers(_, _)
AddFamilyMembers(acc, members) ==
    IF members = <<>> \/ acc.raised THEN acc
    ELSE AddFamilyMembers(AddFamilyMember(acc, Head(members)), Tail(members))

\* lines 378-399
AddAlsoPublished(acc, pub) ==
    IF pub.t \notin {"str", "dict"} THEN acc
    ELSE LET id == IF pub.t = "str" THEN Str(pub.s)
                   ELSE Or(pub.document_id, pub.publication_number)
         IN  IF ~TruthyVal(id) THEN acc
             ELSE LET rec == Patent(id, Take(id.s, 2), "", "also_published_as")
                      ww == IF ~AnyDocId(acc.worldwide_patents, id)
                            THEN Append(acc.worldwide_patents, rec)
                            ELSE acc.worldwide_patents
                      br == IF StartsWithBR(id.s) /\ ~AnyDocId(acc.br_patents, id)
                            THEN Append(acc.br_patents, rec)
                            ELSE acc.br_patents
                  IN  [acc EXCEPT !.worldwide_patents = ww, !.br_patents = br]

\* lines 378-399: for pub in also_published
RECURSIVE AddAllAlsoPublished(_, _)
AddAllAlsoPublished(acc, pubs) ==
    IF pubs = <<>> \/ acc.raised THEN acc
    ELSE AddAllAlsoPublished(AddAlsoPublished(acc, Head(pubs)), Tail(pubs))

\* lines 404-413 and 418-427: one entry of similar_documents or of citations
AddBROnly(source, acc, e) ==
    IF e.t # "dict" THEN [acc EXCEPT !.raised = TRUE]
    ELSE LET id == Or(e.document_id, e.publication_number)
         IN  IF id.t # "str" THEN [acc EXCEPT !.raised = TRUE]
             ELSE IF StartsWithBR(id.s) /\ ~AnyDocId(acc.br_patents, id)
                  THEN [acc EXCEPT !.br_patents =
                            Append(@, Patent(id, <<"B", "R">>, "", source))]
                  ELSE acc

\* lines 403-413 and 417-427: for sim in similar[:20], for cite in citations[:30]
RECURSIVE AddAllBROnly(_, _, _)
AddAllBROnly(source, acc, entries) ==
    IF entries = <<>> \/ acc.raised THEN acc
    ELSE AddAllBROnly(source, AddBROnly(source, acc, Head(entries)), Tail(entries))

SimilarSample == 20

CitationSample == 30

\* lines 335-427
ExtractDirect(payload) ==
    LET a1 == AddYears(NewAcc, Get(payload, "worldwide_applications", <<>>))
        a2 == AddFamilyMembers(a1, Get(payload, "family_members", <<>>))
        a3 == AddAllAlsoPublished(a2, Get(payload, "also_published_as", <<>>))
        a4 == AddAllBROnly("similar_documents", a3,
                  Sample(Get(payload, "similar_documents", <<>>), SimilarSample))
    IN  AddAllBROnly("citations", a4,
            Sample(Get(payload, "citations", <<>>), CitationSample))

\* lines 460-474: the extraction from the payload of the search chain
ExtractChained(detail_data) ==
    AddYears(NewAcc, Get(detail_data, "worldwide_applications", <<>>))

(***************************************************************************)
(* The responses the external services may give.                          *)
(***************************************************************************)
BR1 == <<"B", "R", "1">>

BRh1 == <<"B", "R", "-", "1">>

BRs1 == <<"B", "R", " ", "1">>

BR1A2 == <<"B", "R", "1", "A", "2">>

US1 == <<"U", "S", "1">>

us1 == <<"u", "s", "1">>

\* the canonical identifiers discovery may hand to resolution, in sorted order
WoUniverse == <<"WO2016096610", "WO2017000001">>

OtherPublication == "US20160000001"

\* a set of list positions as the increasing list of the elements there
RECURSIVE Pick(_, _)
Pick(universe, positions) ==
    IF universe = <<>> THEN <<>>
    ELSE LET rest == Pick(Tail(universe), {i - 1 : i \in positions \ {1}})
         IN  IF 1 \in positions THEN <<Head(universe)>> \o rest ELSE rest

\* sorted(list(all_wo_numbers)), line 268
WoLists == {Pick(WoUniverse, S) : S \in SUBSET (1..Len(WoUniverse))}

\* the keys of a detail payload: its metadata and the substructures it carries
DetailKeys(ww, fam, also, sim, cit) ==
    {"title"}
    \cup (IF ww # <<>> THEN {"worldwide_applications"} ELSE {})
    \cup (IF fam # <<>> THEN {"family_members"} ELSE {})
    \cup (IF also # <<>> THEN {"also_published_as"} ELSE {})
    \cup (IF sim # <<>> THEN {"similar_documents"} ELSE {})
    \cup (IF cit # <<>> THEN {"citations"} ELSE {})

Detail(ww, fam, also, sim, cit) ==
    [Blank EXCEPT !.keys = DetailKeys(ww, fam, also, sim, cit),
                  !.worldwide_applications = ww, !.family_members = fam,
                  !.also_published_as = also, !.similar_documents = sim,
                  !.citations = cit]

Year(year, apps) == <<Bucket(year, TRUE, apps)>>

\* the detail payloads the provider may answer with
DetailBodies ==
    {Detail(<<>>, <<>>, <<>>, <<>>, <<>>),
     Detail(Year("2016", <<Doc(BR1)>>), <<>>, <<>>, <<>>, <<>>),
     Detail(Year("2016", <<Doc(US1)>>), <<>>, <<>>, <<>>, <<>>),
     Detail(Year("2016", <<Doc(us1)>>), <<>>, <<>>, <<>>, <<>>),
     Detail(Year("2016", <<Doc(BR1)>>) \o Year("2017", <<Doc(BRh1)>>),
            <<>>, <<>>, <<>>, <<>>),
     Detail(<<Bucket("2016", FALSE, <<>>)>>, <<>>, <<>>, <<>>, <<>>),
     Detail(Year("2016", <<NullDoc>>), <<>>, <<>>, <<>>, <<>>),
     Detail(Year("2016", <<Doc(BR1)>>), <<NullDoc>>, <<>>, <<>>, <<>>),
     Detail(Year("2016", <<Doc(BR1)>>), <<Doc(BR1)>>, <<>>, <<>>, <<>>),
     Detail(<<>>, <<>>, <<PlainStr(BRh1)>>, <<>>, <<>>),
     Detail(<<>>, <<>>, <<>>, <<PubDoc(BR1)>>, <<>>),
     Detail(<<>>, <<>>, <<>>, <<>>, <<Doc(BRh1)>>),
     [Blank EXCEPT !.keys = {"search_metadata", "error"}, !.error = "no results"]}

\* one organic result of a keyword search
OrganicResult(pub, link) == [publication_number |-> pub, serpapi_link |-> link]

NoLink == ""

DetailLink == "https://serpapi.com/search.json?engine=google_patents_details"

MaxResults == 2

OrganicResults ==
    {OrganicResult(pub, link) :
        pub \in {WoUniverse[1], OtherPublication},
        link \in {NoLink, DetailLink}}

OrganicLists == UNION {[1..n -> OrganicResults] : n \in 0..MaxResults}

SearchBodies ==
    {[Blank EXCEPT !.keys = {"search_metadata"}]}
    \cup {[Blank EXCEPT !.keys = {"search_metadata", "organic_results"},
                        !.organic_results = l] : l \in OrganicLists}

\* the attempt outcomes of one http_get call: the call stops at its first success
Runs(bodies) ==
    LET F == FailureOutcomes
        S == {Success(b) : b \in bodies}
    IN  {<<s>> : s \in S}
        \cup {<<f, s>> : f \in F, s \in S}
        \cup {<<f, g, s>> : f \in F, g \in F, s \in S}
        \cup {<<f, g, h>> : f \in F, g \in F, h \in F}

\* every attempt of the call failed
AllFailed(outs) ==
    Len(outs) = MaxAttempts /\ \A i \in 1..Len(outs) : outs[i].kind # "ok"

\* what one http_get call can return, with whether all its attempts failed
Fetches(bodies) ==
    {[ret |-> HttpGet(outs).ret, exhausted |-> AllFailed(outs)] : outs \in Runs(bodies)}

DetailFetches == Fetches(DetailBodies)

SearchFetches == Fetches(SearchBodies)

(***************************************************************************)
(* The national registry (INPI crawler) and the regional office (EPO OPS).*)
(***************************************************************************)
InpiPatent(title) == [title |-> title]

InpiDataOptions ==
    {<<>>, <<InpiPatent(Str(BRs1))>>, <<InpiPatent(Str(BR1))>>,
     <<InpiPatent(Str(US1))>>, <<InpiPatent(Null), InpiPatent(Str(BR1))>>}

InpiBodies ==
    {[Blank EXCEPT !.keys = {"status"}]}
    \cup {[Blank EXCEPT !.keys = {"status", "data"}, !.data = d] : d \in InpiDataOptions}

InpiFetches == Fetches(InpiBodies)

MaxTerms == 2

\* the JSON the token endpoint may answer, and {} when http_post fails
PostResults ==
    {EmptyDict,
     [Blank EXCEPT !.keys = {"access_token"}, !.access_token = "token"],
     [Blank EXCEPT !.keys = {"error"}, !.error = "invalid_client"]}

Publication(country, number, kind) ==
    [country |-> country, number |-> number, kind |-> kind]

EpoPublicationOptions ==
    {[is_list |-> TRUE, items |-> <<>>],
     [is_list |-> TRUE, items |-> <<Publication(<<"B", "R">>, <<"1">>, <<"A", "2">>)>>],
     [is_list |-> TRUE, items |-> <<Publication(<<"U", "S">>, <<"1">>, <<>>),
                                    Publication(<<"B", "R">>, <<"1">>, <<>>)>>],
     [is_list |-> FALSE, items |-> <<Publication(<<"B", "R">>, <<"1">>, <<>>)>>]}

EpoBodies ==
    {[Blank EXCEPT !.keys = {"ops:world-patent-data"}]}
    \cup {[Blank EXCEPT !.keys = {"ops:world-patent-data", "publications"},
                        !.publications = pubs] : pubs \in EpoPublicationOptions}

EpoFetches == Fetches(EpoBodies)

(***************************************************************************)
(* Pure parts of extract_all_countries_from_wo and search_patents.        *)
(***************************************************************************)
\* lines 301-309
NewResult(wo) ==
    [wo_number |-> wo, worldwide_patents |-> <<>>, br_patents |-> <<>>,
     family_members |-> <<>>, status |-> "pending", extraction_method |-> "None",
     has_reason |-> FALSE, reason |-> ""]

\* a test of the payload that also wants worldwide applications in it
PayloadOKWithApplications(payload) ==
    /\ Truthy(payload)
    /\ Get(payload, "error", "") = ""
    /\ Get(payload, "worldwide_applications", <<>>) # <<>>

\* lines 317 and 456: payload and not payload.get("error")
PayloadOK(payload) == Truthy(payload) /\ Get(payload, "error", "") = ""

\* lines 484-486: the except clause of the resolution
Raised(res) ==
    [res EXCEPT !.status = "error", !.has_reason = TRUE, !.reason = "exception"]

WithLists(res, acc) ==
    [res EXCEPT !.worldwide_patents = acc.worldwide_patents,
                   !.br_patents = acc.br_patents,
                   !.family_members = acc.family_members]

\* lines 318-429, with the except clause of lines 484-486
DirectResult(res, payload) ==
    LET acc == ExtractDirect(payload)
        r == WithLists([res EXCEPT !.extraction_method = "direct_details"], acc)
    IN  IF acc.raised THEN Raised(r)
        ELSE [r EXCEPT !.status =
                  IF r.worldwide_patents # <<>> \/ r.br_patents # <<>>
                  THEN "success" ELSE "no_national_patents"]

\* lines 457-476, with the except clause of lines 484-486
ChainedResult(res, detail_data) ==
    LET acc == ExtractChained(detail_data)
        r == WithLists([res EXCEPT !.extraction_method = "serpapi_link_chain"], acc)
    IN  IF acc.raised THEN Raised(r)
        ELSE [r EXCEPT !.status =
                  IF r.br_patents # <<>> THEN "success" ELSE "no_br_patents"]

\* a skip that records the reason and leaves the status as it was
SkippedWithoutStatus(res, reason) ==
    [res EXCEPT !.has_reason = TRUE, !.reason = reason]

\* lines 477-482
Skipped(res, reason) ==
    [res EXCEPT !.status = "skipped", !.has_reason = TRUE, !.reason = reason]

\* line 446: organic and organic[0].get("serpapi_link")
HasLink(organic) == organic # <<>> /\ organic[1].serpapi_link # ""

\* line 447: the search result whose link is followed
FollowedIndex(organic) == 1

\* lines 734-737 and 740-743: collect the records of one result
RECURSIVE CollectInto(_, _, _)
CollectInto(all, records, wo) ==
    IF records = <<>> THEN all
    ELSE LET patent == Head(records)
         IN  IF ~AnyDocId(all, patent.document_id)
             THEN CollectInto(Append(all, [patent EXCEPT !.from_wo = wo]),
                              Tail(records), wo)
             ELSE CollectInto(all, Tail(records), wo)

MaxBrDetails == 50

\* a record of the BR lists of the response
BrRecord(number, source, from_wo, extraction_source, search_term) ==
    [number |-> number, source |-> source, from_wo |-> from_wo,
     extraction_source |-> extraction_source, search_term |-> search_term]

\* lines 750-756 (the fields of get_br_patent_details that the merge reads)
BrDetails(br) == BrRecord(br.document_id.s, "", br.from_wo, br.source, 0)

\* lines 587-599: the patents one term's response adds; an exception inside
\* the loop leaves through the except clause of line 602
RECURSIVE InpiAdd(_, _, _)
InpiAdd(found, patents, term) ==
    IF patents = <<>> THEN found
    ELSE LET title == Head(patents).title
         IN  IF title.t # "str" THEN found
             ELSE InpiAdd(IF StartsWithBR(title.s)
                          THEN Append(found, BrRecord(SpaceToHyphen(title.s),
                                                      "inpi_direct", "", "", term))
                          ELSE found,
                          Tail(patents), term)

\* lines 582-603: for term in search_terms
RECURSIVE InpiTerms(_, _, _)
InpiTerms(found, responses, term) ==
    IF term > Len(responses) THEN found
    ELSE LET data == responses[term]
         IN  InpiTerms(IF Truthy(data) /\ Get(data, "data", <<>>) # <<>>
                       THEN InpiAdd(found, data.data, term)
                       ELSE found,
                       responses, term + 1)

\* lines 605-612 and 765-790: keep the first record of each normalized number
RECURSIVE DedupInto(_, _, _, _)
DedupInto(unique, seen, records, source) ==
    IF records = <<>> THEN unique
    ELSE LET br == Head(records)
             norm == Normalize(br.number)
         IN  IF norm \notin seen
             THEN DedupInto(Append(unique, [br EXCEPT !.source = source]),
                            seen \cup {norm}, Tail(records), source)
             ELSE DedupInto(unique, seen, Tail(records), source)

Norms(records) == {Normalize(records[i].number) : i \in 1..Len(records)}

\* search_inpi_direct, lines 551-615
SearchInpi(responses) ==
    DedupInto(<<>>, {}, InpiTerms(<<>>, responses, 1), "inpi_direct")

\* what search_inpi_direct can return: one http_get call per search term
InpiOutcomes ==
    UNION {{SearchInpi([t \in 1..n |-> fs[t].ret]) : fs \in [1..n -> InpiFetches]} :
              n \in 1..MaxTerms}

\* lines 666-688
RECURSIVE EpoAdd(_, _)
EpoAdd(found, pubs) ==
    IF pubs = <<>> THEN found
    ELSE LET pub == Head(pubs)
         IN  EpoAdd(IF pub.country = <<"B", "R">>
                    THEN Append(found, BrRecord(pub.country \o pub.number \o pub.kind,
                                                "epo_ops", "", "", 0))
                    ELSE found,
                    Tail(pubs))

\* search_epo_br_patents after the token, lines 664-695
ParseEpo(data) ==
    IF Truthy(data)
    THEN EpoAdd(<<>>, Get(data, "publications", [is_list |-> TRUE, items |-> <<>>]).items)
    ELSE <<>>

\* what search_epo_br_patents can return once it holds a token
EpoOutcomes == {ParseEpo(f.ret) : f \in EpoFetches}

\* a merge that forgets the numbers seen in the sources merged before
MergeBrPerSource(from_wo, inpi, epo) ==
    LET a == DedupInto(<<>>, {}, from_wo, "wo_extraction")
        b == DedupInto(a, {}, inpi, "inpi_direct")
    IN  DedupInto(b, {}, epo, "epo_ops")

\* lines 765-790
MergeBr(from_wo, inpi, epo) ==
    LET a == DedupInto(<<>>, {}, from_wo, "wo_extraction")
        b == DedupInto(a, Norms(a), inpi, "inpi_direct")
    IN  DedupInto(b, Norms(b), epo, "epo_ops")

\* lines 793-798 and 836
ByCountry(patents) ==
    [c \in {patents[i].country : i \in 1..Len(patents)} |->
        Len(SelectSeq(patents, LAMBDA q : q.country = c))]

\* lines 823-832
Summary(results) ==
    [i \in 1..Len(results) |->
        [wo |-> results[i].wo_number,
         worldwide_count |-> Len(results[i].worldwide_patents),
         br_count |-> Len(results[i].br_patents),
         status |-> results[i].status,
         method |-> results[i].extraction_method]]

MaxWorldwideShown == 200

(***************************************************************************)
(* APIKeyRotator, lines 44-56.                                            *)
(***************************************************************************)
\* lines 36-42: the pool; what the credentials are is immaterial
SERPAPI_KEYS == <<"key1", "key2", "key3", "key4", "key5">>

NumCallers == 3

MaxCalls == 3

\* the coroutines that call api_keys.get_key()
Callers == 1..NumCallers

\* self.keys[self.index % len(self.keys)], line 52
KeyAt(i) == SERPAPI_KEYS[(i % Len(SERPAPI_KEYS)) + 1]

(***************************************************************************)
(* extract_wo_numbers, lines 147-167.  A pattern is a sequence of items,  *)
(* each a character class repeated lo to hi times; grp is the number of   *)
(* the group the item captures, 0 for none.  In every pattern an item of  *)
(* variable length is followed by a class disjoint from its own or by     *)
(* nothing that can fail, so the longest run is the only one the regex    *)
(* engine can match with.                                                 *)
(***************************************************************************)
IsDigit(c) == c \in {"0", "1", "2", "3", "4", "5", "6", "7", "8", "9"}

\* the upper-case letters of the alphabet in use
UpperLetters == {"W", "O", "P", "C", "T", "I", "B", "A", "R", "U", "S", "N", "E"}

\* c.upper(), as re.IGNORECASE compares letters
Fold(c) ==
    CASE c = "w" -> "W"
      [] c = "o" -> "O"
      [] c = "p" -> "P"
      [] c = "c" -> "C"
      [] c = "t" -> "T"
      [] c = "i" -> "I"
      [] c = "n" -> "N"
      [] c = "e" -> "E"
      [] OTHER   -> Upper(c)

\* does the character belong to the class, under re.IGNORECASE
InClass(c, cls) ==
    CASE cls = "digit"        -> IsDigit(c)
      [] cls = "letter"       -> Fold(c) \in UpperLetters
      [] cls = "space_hyphen" -> c \in {" ", "-"}
      [] cls = "space_slash"  -> c \in {" ", "/"}
      [] cls = "space"        -> c = " "
      [] OTHER                -> Fold(c) = cls

Item(cls, lo, hi, grp) == [cls |-> cls, lo |-> lo, hi |-> hi, grp |-> grp]

\* a literal character of a pattern
Lit(c) == Item(c, 1, 1, 0)

\* (\d{4}) and (\d{6})
YearGroup == Item("digit", 4, 4, 1)

SerialGroup == Item("digit", 6, 6, 2)

\* line 149: WO[\s-]?(\d{4})[\s/]?(\d{6})
WoLoose ==
    <<Lit("W"), Lit("O"), Item("space_hyphen", 0, 1, 0), YearGroup,
      Item("space_slash", 0, 1, 0), SerialGroup>>

\* line 150: WO(\d{4})(\d{6})[A-Z]?\d?
WoCompact ==
    <<Lit("W"), Lit("O"), YearGroup, SerialGroup,
      Item("letter", 0, 1, 0), Item("digit", 0, 1, 0)>>

\* line 151: WO\s?(\d{4})/(\d{6})
WoSlash ==
    <<Lit("W"), Lit("O"), Item("space", 0, 1, 0), YearGroup, Lit("/"), SerialGroup>>

\* line 152: WO(\d{4})[\s-](\d{6})
WoSeparated ==
    <<Lit("W"), Lit("O"), YearGroup, Item("space_hyphen", 1, 1, 0), SerialGroup>>

\* line 153: PCT/[A-Z]{2}(\d{4})/(\d{6})
Pct ==
    <<Lit("P"), Lit("C"), Lit("T"), Lit("/"), Item("letter", 2, 2, 0),
      YearGroup, Lit("/"), SerialGroup>>

\* a pattern list without the two patterns that match an unseparated id
PatternsSeparatedOnly == <<WoSlash, WoSeparated, Pct>>

\* lines 148-154
Patterns == <<WoLoose, WoCompact, WoSlash, WoSeparated, Pct>>

\* how many characters from pos on belong to the class, at most hi of them
RECURSIVE RunLength(_, _, _, _)
RunLength(text, pos, cls, hi) ==
    IF hi = 0 \/ pos > Len(text) \/ ~InClass(text[pos], cls) THEN 0
    ELSE 1 + RunLength(text, pos + 1, cls, hi - 1)

\* the match of the items at pos, if there is one
RECURSIVE MatchFrom(_, _, _, _)
MatchFrom(text, pos, items, groups) ==
    IF items = <<>> THEN [matched |-> TRUE, end |-> pos, groups |-> groups]
    ELSE LET it == Head(items)
             n == RunLength(text, pos, it.cls, it.hi)
         IN  IF n < it.lo THEN [matched |-> FALSE, end |-> pos, groups |-> groups]
             ELSE MatchFrom(text, pos + n, Tail(items),
                            IF it.grp > 0
                            THEN [groups EXCEPT ![it.grp] = SubSeq(text, pos, pos + n - 1)]
                            ELSE groups)

\* line 158: re.findall(pattern, text, re.IGNORECASE), the leftmost matches
\* that do not overlap, as tuples of groups
RECURSIVE FindAll(_, _, _)
FindAll(text, pos, items) ==
    IF pos > Len(text) THEN <<>>
    ELSE LET m == MatchFrom(text, pos, items, <<<<>>, <<>>>>)
         IN  IF m.matched THEN <<m.groups>> \o FindAll(text, m.end, items)
             ELSE FindAll(text, pos + 1, items)

\* s.zfill(n)
ZFill(s, n) == IF Len(s) >= n THEN s ELSE [i \in 1..(n - Len(s)) |-> "0"] \o s

\* lines 160-165: the identifier one match gives
WoNumber(m) ==
    LET year == m[1]
        number == ZFill(m[2], 6)
        full == IF Len(year) = 2
                THEN (IF year[1] \in {"0", "1", "2", "3", "4"}
                      THEN <<"2", "0">> ELSE <<"1", "9">>) \o year
                ELSE year
    IN  <<"W", "O">> \o full \o number

\* lines 147-167; the list of line 167 is in no particular order
extract_wo_numbers(text) ==
    UNION {{WoNumber(FindAll(text, 1, Patterns[p])[i]) :
               i \in 1..Len(FindAll(text, 1, Patterns[p]))} : p \in 1..Len(Patterns)}

\* the texts extract_wo_numbers is given: a prefix, a year, a separator, a
\* serial and a suffix
Texts ==
    {a \o y \o b \o n \o k :
         a \in {<<"W", "O">>, <<"w", "o">>, <<"W", "O", " ">>, <<"W", "O", "-">>, <<"P", "C", "T", "/", "I", "B">>, <<"U", "S">>},
         y \in {<<"2", "0", "1", "6">>, <<"1", "9", "9", "9">>},
         b \in {<<>>, <<" ">>, <<"/">>, <<"-">>},
         n \in {<<"0", "9", "6", "6", "1", "0">>, <<"0", "0", "0", "0", "0", "1">>},
         k \in {<<>>, <<"A", "1">>, <<" ", "W", "O", "2", "0", "1", "7", "0", "0", "0", "0", "0", "1">>}}

(***************************************************************************)
(* discover_wo_numbers, lines 173-270: what it does with the organic      *)
(* results of a response.                                                 *)
(***************************************************************************)
\* a value inside an f-string: str(None) is "None", a missing key gives ""
Format(v) ==
    IF v.t = "str" THEN v.s
    ELSE IF v.t = "null" THEN <<"N", "o", "n", "e">>
    ELSE <<>>

\* line 237: title, snippet, publication_number and patent_id
PatentText(hit) ==
    Format(hit.title) \o <<" ">> \o <<" ">> \o Format(hit.publication_number) \o <<" ">>

\* line 260: title, snippet and link
WebText(hit) == Format(hit.title) \o <<" ">> \o <<" ">>

\* s.startswith("WO")
StartsWithWO(s) == Len(s) >= 2 /\ s[1] = "W" /\ s[2] = "O"

\* line 244: re.sub(r'[A-Z]\d*$', '', s), which cuts s at the first upper-case
\* letter that only digits follow up to the end
StripKindCode(s) ==
    LET starts == {i \in 1..Len(s) :
                      /\ s[i] \in UpperLetters
                      /\ \A j \in (i + 1)..Len(s) : IsDigit(s[j])}
    IN  IF starts = {} THEN s
        ELSE SubSeq(s, 1, (CHOOSE i \in starts : \A j \in starts : i <= j) - 1)

\* lines 242-245: what the publication_number field adds by itself
DirectlyAdded(pub_num) ==
    IF StartsWithWO(pub_num) THEN {StripKindCode(pub_num)} ELSE {}

\* the characters in use, in the order of their code points
CharOrder ==
    <<" ", "-", "/", "0", "1", "2", "3", "4", "5", "6", "7", "8", "9",
      "A", "B", "C", "E", "I", "N", "O", "P", "R", "S", "T", "U", "W",
      "a", "b", "c", "e", "i", "n", "o", "p", "r", "s", "t", "u", "w">>

Ord(c) == CHOOSE i \in 1..Len(CharOrder) : CharOrder[i] = c

\* a < b for strings
RECURSIVE Before(_, _)
Before(a, b) ==
    IF b = <<>> THEN FALSE
    ELSE IF a = <<>> THEN TRUE
    ELSE IF Head(a) = Head(b) THEN Before(Tail(a), Tail(b))
    ELSE Ord(Head(a)) < Ord(Head(b))

\* line 268: sorted(list(all_wo_numbers))
RECURSIVE Sorted(_)
Sorted(S) ==
    IF S = {} THEN <<>>
    ELSE LET least == CHOOSE x \in S : \A y \in S \ {x} : Before(x, y)
         IN  <<least>> \o Sorted(S \ {least})

MaxQueries == 2

\* an organic result: the fields discovery reads
Hit(title, publication_number) ==
    [title |-> title, publication_number |-> publication_number]

\* the organic results: a title, missing or present, and a publication number
Hits ==
    {Hit(t, n) :
         t \in {Absent, Str(<<"W", "O", "2", "0", "1", "7", "/", "0", "0", "0", "0", "0", "1", " ", "A", "1">>)},
         n \in {Absent, Null, Str(<<"W", "O", "2", "0", "1", "6", "0", "9", "6", "6", "1", "0">>), Str(<<"W", "O", "2", "0", "1", "6", "0", "9", "6", "6", "1", "0", "A", "1">>), Str(<<"W", "O", "2", "0", "1", "6", "/", "0", "9", "6", "6", "1", "0", "A", "1">>), Str(<<"U", "S", "1">>)}}

\* data.get("organic_results", []) of a response, [] when the fetch failed
HitLists == UNION {[1..n -> Hits] : n \in 0..MaxResults}

\* lines 259-262: the identifiers the web results add
RECURSIVE WebAdded(_)
WebAdded(hits) ==
    IF hits = <<>> THEN {}
    ELSE extract_wo_numbers(WebText(Head(hits))) \cup WebAdded(Tail(hits))

(***************************************************************************)
(* The request body, lines 703-710.                                       *)
(***************************************************************************)
\* s.lstrip() and s.rstrip() for the whitespace of the alphabet in use
RECURSIVE LStrip(_)
LStrip(s) == IF s # <<>> /\ Head(s) = " " THEN LStrip(Tail(s)) ELSE s

RECURSIVE RStrip(_)
RStrip(s) ==
    IF s # <<>> /\ s[Len(s)] = " " THEN RStrip(SubSeq(s, 1, Len(s) - 1)) ELSE s

\* s.strip()
Strip(s) == LStrip(RStrip(s))

\* request.get(key, "")
GetOrEmpty(v) == IF v = Absent THEN Str(<<>>) ELSE v

\* no request has been received, or its body has been read
NoRequest == [nome_molecula |-> Absent, nome_comercial |-> Absent]

\* the bodies: POST /search takes any JSON object, and search_by_url passes
\* None as nome_comercial for a request without a brand parameter (line 882)
Requests ==
    {[nome_molecula |-> m, nome_comercial |-> b] :
         m \in {Absent, Null, Str(<<>>), Str(<<" ">>), Str(<<"a">>), Str(<<" ", "a", " ">>)},
         b \in {Absent, Null, Str(<<"b">>)}}

\* line 882: the body search_by_url hands to search_patents; brand is None
\* when the query string has no brand parameter
search_by_url(molecule, brand) ==
    [nome_molecula |-> molecule, nome_comercial |-> brand]

\* lines 706-707: .strip() of a value that is no string raises AttributeError
StripRaises(body) ==
    \/ GetOrEmpty(body.nome_molecula).t # "str"
    \/ GetOrEmpty(body.nome_comercial).t # "str"

\* line 706
Molecule(body) == Strip(GetOrEmpty(body.nome_molecula).s)

(***************************************************************************)
(* State.  One http_get call, attempt by attempt; and one request         *)
(* (search_patents) with the resolution of the identifier it is working   *)
(* on (extract_all_countries_from_wo).                                    *)
(***************************************************************************)
VARIABLES
    h_pc,        \* "idle" | "loop" | "returned" | "raised"
    attempt,     \* the loop variable of line 68
    history,     \* the outcomes the attempts of this call met
    waits,       \* the sleeps of this call: [attempt, secs]
    ret          \* <<>> until the call returns, then <<value>>

VARIABLES
    p_pc,                   \* position in search_patents; "rejected" and "crashed"
                            \* are its two ways to end without a report
    wo_numbers,             \* the identifiers discovery returned
    wi,                     \* position of the loop of line 727 (1-based)
    r_pc,                   \* position in extract_all_countries_from_wo
    result,                 \* the result of the resolution under way
    patent_data,            \* line 315
    search_data,            \* line 442
    fetches,                \* the fetches resolution issued, in order
    wo_results,
    all_worldwide_patents,
    all_br_patents,
    br_with_details,
    inpi_patents,
    epo_patents,
    final_br,
    report                  \* <<>> until the request returns, then <<response>>

VARIABLES
    request                 \* the body of the request, until line 707 has read it

VARIABLES
    lock,        \* the caller that holds APIKeyRotator.lock, 0 when it is free
    index,       \* APIKeyRotator.index
    c_pc,        \* position of each caller in get_key
    c_key,       \* the local variable key of each caller
    c_ticket,    \* how many callers entered the critical section before it
    entered,     \* the number of entries into the critical section
    handed,      \* the keys get_key returned, in order: [ticket, key]
    calls        \* the number of calls each caller completed

VARIABLES
    d_pc,            \* position in discover_wo_numbers
    d_query,         \* the loop variable i of line 221
    d_pending,       \* the organic results of the response still to be read
    all_wo_numbers,  \* line 176
    wo_list          \* <<>> until discovery returns, then <<list>>

VARIABLES
    e_pc,        \* "idle" | "called" | "extracted" | "reapplied"
    e_input,     \* the text the first call was given
    e_arg,       \* the argument of the call under way
    e_out        \* the identifiers the last call returned

VARIABLES
    token,       \* what get_epo_token returned, "" before it was called
    epo_queries  \* the number of search requests sent with a bearer token

VARIABLES
    debug_log,   \* the events logged so far, each one numbered as it is logged
    log_tail     \* <<>> until the report is built, then <<its debug_log>>

fetch_vars == <<h_pc, attempt, history, waits, ret>>

epo_vars == <<token, epo_queries>>

log_vars == <<debug_log, log_tail>>

rotator_vars == <<lock, index, c_pc, c_key, c_ticket, entered, handed, calls>>

discovery_vars == <<d_pc, d_query, d_pending, all_wo_numbers, wo_list>>

extract_vars == <<e_pc, e_input, e_arg, e_out>>

pipe_vars ==
    <<p_pc, wo_numbers, wi, r_pc, result, patent_data, search_data,
      fetches, wo_results, all_worldwide_patents, all_br_patents,
      br_with_details, inpi_patents, epo_patents, final_br, report>>

other_than_fetch ==
    <<pipe_vars, request, rotator_vars, discovery_vars, extract_vars, epo_vars, log_vars>>

other_than_pipe ==
    <<fetch_vars, request, rotator_vars, discovery_vars, extract_vars, epo_vars, log_vars>>

other_than_pipe_and_epo ==
    <<fetch_vars, request, rotator_vars, discovery_vars, extract_vars, log_vars>>

vars ==
    <<fetch_vars, pipe_vars, request, rotator_vars, discovery_vars, extract_vars,
      epo_vars, log_vars>>

\* the JSON bodies a successful response may carry
FetchBodies == {EmptyDict, TitleDict, TitleErrorDict}

FetchInit ==
    /\ h_pc = "idle"
    /\ attempt = 0
    /\ history = <<>>
    /\ waits = <<>>
    /\ ret = <<>>

NoResult == NewResult("")

PipeInit ==
    /\ p_pc = "entry"
    /\ wo_numbers = <<>>
    /\ wi = 1
    /\ r_pc = "idle"
    /\ result = NoResult
    /\ patent_data = Blank
    /\ search_data = Blank
    /\ fetches = <<>>
    /\ wo_results = <<>>
    /\ all_worldwide_patents = <<>>
    /\ all_br_patents = <<>>
    /\ br_with_details = <<>>
    /\ inpi_patents = <<>>
    /\ epo_patents = <<>>
    /\ final_br = <<>>
    /\ report = <<>>

\* no credential exchange yet
EpoInit ==
    /\ token = ""
    /\ epo_queries = 0

\* line 704: debug_log = []
LogInit ==
    /\ debug_log = <<>>
    /\ log_tail = <<>>

\* lines 45-48: APIKeyRotator.__init__, and no caller in get_key
RotatorInit ==
    /\ lock = 0
    /\ index = 0
    /\ c_pc = [c \in Callers |-> "idle"]
    /\ c_key = [c \in Callers |-> ""]
    /\ c_ticket = [c \in Callers |-> 0]
    /\ entered = 0
    /\ handed = <<>>
    /\ calls = [c \in Callers |-> 0]

\* lines 176 and 221: discovery before its first query
DiscoveryInit ==
    /\ d_pc = "query"
    /\ d_query = 0
    /\ d_pending = <<>>
    /\ all_wo_numbers = {}
    /\ wo_list = <<>>

\* extract_wo_numbers has not been called
ExtractIdle ==
    /\ e_pc = "idle"
    /\ e_input = <<>>
    /\ e_arg = <<>>
    /\ e_out = {}

Init ==
    /\ FetchInit
    /\ PipeInit
    /\ request = NoRequest
    /\ RotatorInit
    /\ EpoInit
    /\ LogInit
    /\ DiscoveryInit
    /\ ExtractIdle

(***************************************************************************)
(* http_get, lines 66-89.                                                 *)
(***************************************************************************)
\* a caller enters http_get
HttpCall ==
    /\ h_pc \in {"idle", "returned"}
    /\ h_pc' = "loop"
    /\ attempt' = 0
    /\ history' = <<>>
    /\ waits' = <<>>
    /\ ret' = <<>>
    /\ UNCHANGED other_than_fetch

\* one pass of the loop body with outcome o
DoAttempt(o) ==
    /\ h_pc = "loop"
    /\ attempt < MaxAttempts
    /\ LET s == AttemptStep(attempt, o)
       IN  /\ history' = Append(history, o)
           /\ waits' = IF s.wait > 0
                       THEN Append(waits, [attempt |-> attempt, secs |-> s.wait])
                       ELSE waits
           /\ CASE s.ctl = "continue" ->
                     /\ attempt' = attempt + 1
                     /\ h_pc' = "loop"
                     /\ ret' = ret
                [] s.ctl = "return" ->
                     /\ attempt' = attempt
                     /\ h_pc' = "returned"
                     /\ ret' = <<s.value>>
                [] OTHER ->
                     /\ attempt' = attempt
                     /\ h_pc' = "raised"
                     /\ ret' = ret
    /\ UNCHANGED other_than_fetch

\* lines 73-76
HttpRateLimited == \E o \in FailureOutcomes : o.kind = "rate_limit" /\ DoAttempt(o)

\* lines 78-80
HttpForbidden == \E o \in FailureOutcomes : o.kind = "forbidden" /\ DoAttempt(o)

\* lines 82-88: raise_for_status, the transport or json() raised
HttpException ==
    \E o \in FailureOutcomes :
        o.kind \in {"status", "timeout", "bad_body"} /\ DoAttempt(o)

\* line 83
HttpSuccess == \E o \in Outcomes(FetchBodies) : o.kind = "ok" /\ DoAttempt(o)

\* line 89
HttpLoopEnd ==
    /\ h_pc = "loop"
    /\ attempt = MaxAttempts
    /\ h_pc' = "returned"
    /\ ret' = <<LoopExhausted>>
    /\ UNCHANGED <<attempt, history, waits>>
    /\ UNCHANGED other_than_fetch

FetchNext ==
    \/ HttpCall
    \/ HttpRateLimited
    \/ HttpForbidden
    \/ HttpException
    \/ HttpSuccess
    \/ HttpLoopEnd

(***************************************************************************)
(* search_patents, lines 701-873, and extract_all_countries_from_wo,      *)
(* lines 295-490.                                                         *)
(***************************************************************************)
aggregate_vars ==
    <<wo_results, all_worldwide_patents, all_br_patents, br_with_details,
      inpi_patents, epo_patents, final_br, report>>

\* the entry of the fetch log for the call that returned f: which identifier
\* and step it served, whether all its attempts failed, whether what it
\* returned is empty and whether it carries an "error" key, how many search
\* results it holds, and for the deep link the position of the search result
\* the link was taken from
Fetched(step, f, followed) ==
    [wo |-> wo_numbers[wi], step |-> step, exhausted |-> f.exhausted,
     empty |-> ~Truthy(f.ret), tagged |-> "error" \in f.ret.keys,
     results |-> Len(Get(f.ret, "organic_results", <<>>)),
     followed |-> followed]

\* lines 706-707: a value of the body is no string; the AttributeError
\* leaves search_patents and the framework answers with status 500
RequestRaises ==
    /\ p_pc = "entry"
    /\ StripRaises(request)
    /\ p_pc' = "crashed"
    /\ UNCHANGED <<wo_numbers, wi, r_pc, result, patent_data, search_data, fetches>>
    /\ UNCHANGED aggregate_vars
    /\ UNCHANGED <<fetch_vars, request, rotator_vars, discovery_vars, extract_vars,
                   epo_vars, log_vars>>

\* lines 709-710: HTTPException(status_code=400)
RejectRequest ==
    /\ p_pc = "entry"
    /\ ~StripRaises(request)
    /\ Molecule(request) = <<>>
    /\ p_pc' = "rejected"
    /\ UNCHANGED <<wo_numbers, wi, r_pc, result, patent_data, search_data, fetches>>
    /\ UNCHANGED aggregate_vars
    /\ UNCHANGED <<fetch_vars, request, rotator_vars, discovery_vars, extract_vars,
                   epo_vars, log_vars>>

\* lines 706-712: the body is read and the request goes on
AcceptRequest ==
    /\ p_pc = "entry"
    /\ ~StripRaises(request)
    /\ Molecule(request) # <<>>
    /\ p_pc' = "start"
    /\ request' = NoRequest
    /\ UNCHANGED <<wo_numbers, wi, r_pc, result, patent_data, search_data, fetches>>
    /\ UNCHANGED aggregate_vars
    /\ UNCHANGED <<fetch_vars, rotator_vars, discovery_vars, extract_vars,
                   epo_vars, log_vars>>

\* lines 715-718: the identifiers discovery hands to resolution
Discover ==
    /\ p_pc = "start"
    /\ \E found \in WoLists : wo_numbers' = found
    /\ p_pc' = "extract"
    /\ UNCHANGED <<wi, r_pc, result, patent_data, search_data, fetches>>
    /\ UNCHANGED aggregate_vars
    /\ UNCHANGED other_than_pipe

\* lines 727-730 and 301-309: the next identifier enters resolution
BeginExtract ==
    /\ p_pc = "extract"
    /\ r_pc = "idle"
    /\ wi <= Len(wo_numbers)
    /\ result' = NewResult(wo_numbers[wi])
    /\ r_pc' = "NotStarted"
    /\ UNCHANGED <<p_pc, wo_numbers, wi, patent_data, search_data, fetches>>
    /\ UNCHANGED aggregate_vars
    /\ UNCHANGED other_than_pipe

\* line 315: get_patent_details_direct
DirectFetch ==
    /\ r_pc = "NotStarted"
    /\ \E f \in DetailFetches :
          /\ patent_data' = f.ret
          /\ fetches' = Append(fetches, Fetched("direct", f, 0))
    /\ r_pc' = "DirectAttempted"
    /\ UNCHANGED <<p_pc, wo_numbers, wi, result, search_data>>
    /\ UNCHANGED aggregate_vars
    /\ UNCHANGED other_than_pipe

\* lines 317-429, then line 490
ExtractFromDirect ==
    /\ r_pc = "DirectAttempted"
    /\ PayloadOK(patent_data)
    /\ result' = DirectResult(result, patent_data)
    /\ r_pc' = "Returned"
    /\ patent_data' = Blank
    /\ UNCHANGED <<p_pc, wo_numbers, wi, search_data, fetches>>
    /\ UNCHANGED aggregate_vars
    /\ UNCHANGED other_than_pipe

\* lines 431-443: the keyword search of the fallback
SearchFallback ==
    /\ r_pc = "DirectAttempted"
    /\ ~PayloadOK(patent_data)
    /\ \E f \in SearchFetches :
          /\ search_data' = f.ret
          /\ fetches' = Append(fetches, Fetched("search", f, 0))
    /\ r_pc' = "SearchAttempted"
    /\ UNCHANGED <<p_pc, wo_numbers, wi, result, patent_data>>
    /\ UNCHANGED aggregate_vars
    /\ UNCHANGED other_than_pipe

\* lines 445-476, then line 490: the deep link is followed and its payload used
ChainResolved ==
    /\ r_pc = "SearchAttempted"
    /\ HasLink(Get(search_data, "organic_results", <<>>))
    /\ \E f \in DetailFetches :
          /\ PayloadOK(f.ret)
          /\ fetches' = Append(fetches,
                Fetched("link", f, FollowedIndex(search_data.organic_results)))
          /\ result' = ChainedResult(result, f.ret)
    /\ r_pc' = "Returned"
    /\ patent_data' = Blank
    /\ search_data' = Blank
    /\ UNCHANGED <<p_pc, wo_numbers, wi>>
    /\ UNCHANGED aggregate_vars
    /\ UNCHANGED other_than_pipe

\* lines 445-455 and 477-479, then line 490: the deep link gave no payload
SerpapiLinkFailed ==
    /\ r_pc = "SearchAttempted"
    /\ HasLink(Get(search_data, "organic_results", <<>>))
    /\ \E f \in DetailFetches :
          /\ ~PayloadOK(f.ret)
          /\ fetches' = Append(fetches,
                Fetched("link", f, FollowedIndex(search_data.organic_results)))
    /\ result' = Skipped(result, "serpapi_link_failed")
    /\ r_pc' = "Returned"
    /\ patent_data' = Blank
    /\ search_data' = Blank
    /\ UNCHANGED <<p_pc, wo_numbers, wi>>
    /\ UNCHANGED aggregate_vars
    /\ UNCHANGED other_than_pipe

\* lines 445-446 and 480-482, then line 490
NoSerpapiLink ==
    /\ r_pc = "SearchAttempted"
    /\ ~HasLink(Get(search_data, "organic_results", <<>>))
    /\ result' = Skipped(result, "no_serpapi_link")
    /\ r_pc' = "Returned"
    /\ patent_data' = Blank
    /\ search_data' = Blank
    /\ UNCHANGED <<p_pc, wo_numbers, wi, fetches>>
    /\ UNCHANGED aggregate_vars
    /\ UNCHANGED other_than_pipe

\* lines 731-745: the result joins the aggregate
Collect ==
    /\ r_pc = "Returned"
    /\ wo_results' = Append(wo_results, result)
    /\ all_worldwide_patents' =
          CollectInto(all_worldwide_patents, result.worldwide_patents, wo_numbers[wi])
    /\ all_br_patents' = CollectInto(all_br_patents, result.br_patents, wo_numbers[wi])
    /\ wi' = wi + 1
    /\ r_pc' = "idle"
    /\ result' = NoResult
    /\ UNCHANGED <<p_pc, wo_numbers, patent_data, search_data, fetches,
                   br_with_details, inpi_patents, epo_patents, final_br, report>>
    /\ UNCHANGED other_than_pipe

\* lines 747-756: one detail fetch per BR record, at most MaxBrDetails of them
DetailBrPatents ==
    /\ p_pc = "extract"
    /\ r_pc = "idle"
    /\ wi > Len(wo_numbers)
    /\ LET shown == Sample(all_br_patents, MaxBrDetails)
       IN  br_with_details' = [i \in 1..Len(shown) |-> BrDetails(shown[i])]
    /\ p_pc' = "inpi"
    /\ UNCHANGED <<wo_numbers, wi, r_pc, result, patent_data, search_data,
                   fetches, wo_results, all_worldwide_patents,
                   all_br_patents, inpi_patents, epo_patents, final_br, report>>
    /\ UNCHANGED other_than_pipe

\* line 759: search_inpi_direct, one fetch per search term
InpiSearch ==
    /\ p_pc = "inpi"
    /\ \E found \in InpiOutcomes : inpi_patents' = found
    /\ p_pc' = "epo"
    /\ UNCHANGED <<wo_numbers, wi, r_pc, result, patent_data, search_data,
                   fetches, wo_results,
                   all_worldwide_patents, all_br_patents, br_with_details,
                   epo_patents, final_br, report>>
    /\ UNCHANGED other_than_pipe

\* lines 621-642: what get_epo_token returns for the answer of http_post
get_epo_token(posted) == Get(posted, "access_token", "")

\* a test that lets every token through
HasTokenAlways(tok) == TRUE

\* line 651: the test "if not token" lets the search go on
HasToken(tok) == tok # ""

\* lines 650-653: the credential exchange gave no token
EpoNoToken ==
    /\ p_pc = "epo"
    /\ \E posted \in PostResults :
          /\ token' = get_epo_token(posted)
          /\ ~HasToken(token')
    /\ epo_patents' = <<>>
    /\ p_pc' = "merge"
    /\ UNCHANGED <<wo_numbers, wi, r_pc, result, patent_data, search_data,
                   fetches, wo_results,
                   all_worldwide_patents, all_br_patents, br_with_details,
                   inpi_patents, final_br, report>>
    /\ UNCHANGED epo_queries
    /\ UNCHANGED other_than_pipe_and_epo

\* lines 655-695: the search with the bearer token
EpoSearch ==
    /\ p_pc = "epo"
    /\ \E posted \in PostResults :
          /\ token' = get_epo_token(posted)
          /\ HasToken(token')
    /\ epo_queries' = epo_queries + 1
    /\ \E found \in EpoOutcomes : epo_patents' = found
    /\ p_pc' = "merge"
    /\ UNCHANGED <<wo_numbers, wi, r_pc, result, patent_data, search_data,
                   fetches, wo_results,
                   all_worldwide_patents, all_br_patents, br_with_details,
                   inpi_patents, final_br, report>>
    /\ UNCHANGED other_than_pipe_and_epo

\* lines 764-873: merge the BR records and return the report
MergeAndReport ==
    /\ p_pc = "merge"
    /\ final_br' = MergeBr(br_with_details, inpi_patents, epo_patents)
    /\ report' = <<[wo_numbers |-> wo_numbers,
                    summary |-> Summary(wo_results),
                    worldwide_total |-> Len(all_worldwide_patents),
                    by_country |-> ByCountry(all_worldwide_patents),
                    worldwide_patents |-> Sample(all_worldwide_patents, MaxWorldwideShown),
                    br_patents |-> final_br',
                    inpi_direct_results |-> inpi_patents,
                    epo_results |-> epo_patents]>>
    /\ p_pc' = "done"
    /\ UNCHANGED <<wo_numbers, wi, r_pc, result, patent_data, search_data,
                   fetches, wo_results,
                   all_worldwide_patents, all_br_patents, br_with_details,
                   inpi_patents, epo_patents>>
    /\ UNCHANGED other_than_pipe

PipeNext ==
    \/ RequestRaises
    \/ RejectRequest
    \/ AcceptRequest
    \/ Discover
    \/ BeginExtract
    \/ DirectFetch
    \/ ExtractFromDirect
    \/ SearchFallback
    \/ ChainResolved
    \/ SerpapiLinkFailed
    \/ NoSerpapiLink
    \/ Collect
    \/ DetailBrPatents
    \/ InpiSearch
    \/ EpoNoToken
    \/ EpoSearch
    \/ MergeAndReport

(***************************************************************************)
(* APIKeyRotator.get_key, lines 50-54, statement by statement, for every  *)
(* caller.                                                                *)
(***************************************************************************)
\* a critical section that any caller may enter at any time
LockFreeAlways == TRUE

\* line 51: asyncio.Lock lets a caller in only while no one holds it
LockFree == lock = 0

\* a coroutine calls get_key
GetKey(c) ==
    /\ c_pc[c] = "idle"
    /\ calls[c] < MaxCalls
    /\ c_pc' = [c_pc EXCEPT ![c] = "acquire"]
    /\ UNCHANGED <<lock, index, c_key, c_ticket, entered, handed, calls>>
    /\ UNCHANGED <<fetch_vars, pipe_vars, request, discovery_vars, extract_vars,
                   epo_vars, log_vars>>

\* line 51: async with self.lock
Acquire(c) ==
    /\ c_pc[c] = "acquire"
    /\ LockFree
    /\ lock' = c
    /\ c_ticket' = [c_ticket EXCEPT ![c] = entered]
    /\ entered' = entered + 1
    /\ c_pc' = [c_pc EXCEPT ![c] = "read"]
    /\ UNCHANGED <<index, c_key, handed, calls>>
    /\ UNCHANGED <<fetch_vars, pipe_vars, request, discovery_vars, extract_vars,
                   epo_vars, log_vars>>

\* line 52
ReadKey(c) ==
    /\ c_pc[c] = "read"
    /\ c_key' = [c_key EXCEPT ![c] = KeyAt(index)]
    /\ c_pc' = [c_pc EXCEPT ![c] = "incr"]
    /\ UNCHANGED <<lock, index, c_ticket, entered, handed, calls>>
    /\ UNCHANGED <<fetch_vars, pipe_vars, request, discovery_vars, extract_vars,
                   epo_vars, log_vars>>

\* line 53
Advance(c) ==
    /\ c_pc[c] = "incr"
    /\ index' = index + 1
    /\ c_pc' = [c_pc EXCEPT ![c] = "release"]
    /\ UNCHANGED <<lock, c_key, c_ticket, entered, handed, calls>>
    /\ UNCHANGED <<fetch_vars, pipe_vars, request, discovery_vars, extract_vars,
                   epo_vars, log_vars>>

\* line 54: return key, which leaves the async with block
Release(c) ==
    /\ c_pc[c] = "release"
    /\ lock' = 0
    /\ handed' = Append(handed, [ticket |-> c_ticket[c], key |-> c_key[c]])
    /\ calls' = [calls EXCEPT ![c] = @ + 1]
    /\ c_key' = [c_key EXCEPT ![c] = ""]
    /\ c_ticket' = [c_ticket EXCEPT ![c] = 0]
    /\ c_pc' = [c_pc EXCEPT ![c] = "idle"]
    /\ UNCHANGED <<index, entered>>
    /\ UNCHANGED <<fetch_vars, pipe_vars, request, discovery_vars, extract_vars,
                   epo_vars, log_vars>>

RotatorNext ==
    \E c \in Callers :
        \/ GetKey(c)
        \/ Acquire(c)
        \/ ReadKey(c)
        \/ Advance(c)
        \/ Release(c)

(***************************************************************************)
(* discover_wo_numbers, lines 221-270, result by result.                  *)
(***************************************************************************)
\* lines 223-233: the patent search of query i
QueryPatents ==
    /\ d_pc = "query"
    /\ d_query < MaxQueries
    /\ \E hits \in HitLists : d_pending' = hits
    /\ d_pc' = "results"
    /\ UNCHANGED <<d_query, all_wo_numbers, wo_list>>
    /\ UNCHANGED <<fetch_vars, pipe_vars, request, rotator_vars, extract_vars,
                   epo_vars, log_vars>>

\* lines 236-245: one organic result whose publication_number is a string
\* or is missing
ReadHit ==
    /\ d_pc = "results"
    /\ d_pending # <<>>
    /\ Head(d_pending).publication_number.t # "null"
    /\ all_wo_numbers' =
           all_wo_numbers \cup extract_wo_numbers(PatentText(Head(d_pending)))
               \cup DirectlyAdded(Format(Head(d_pending).publication_number))
    /\ d_pending' = Tail(d_pending)
    /\ UNCHANGED <<d_pc, d_query, wo_list>>
    /\ UNCHANGED <<fetch_vars, pipe_vars, request, rotator_vars, extract_vars,
                   epo_vars, log_vars>>

\* lines 236-243, then 265-266: publication_number is None, startswith
\* raises and the except clause goes on with the next query
ReadHitRaises ==
    /\ d_pc = "results"
    /\ d_pending # <<>>
    /\ Head(d_pending).publication_number.t = "null"
    /\ all_wo_numbers' =
           all_wo_numbers \cup extract_wo_numbers(PatentText(Head(d_pending)))
    /\ d_pending' = <<>>
    /\ d_query' = d_query + 1
    /\ d_pc' = "query"
    /\ UNCHANGED wo_list
    /\ UNCHANGED <<fetch_vars, pipe_vars, request, rotator_vars, extract_vars,
                   epo_vars, log_vars>>

\* lines 250-263: every tenth query is also sent to the web search
WebSearch ==
    /\ d_pc = "results"
    /\ d_pending = <<>>
    /\ d_query % 10 = 0
    /\ \E hits \in HitLists : all_wo_numbers' = all_wo_numbers \cup WebAdded(hits)
    /\ d_query' = d_query + 1
    /\ d_pc' = "query"
    /\ UNCHANGED <<d_pending, wo_list>>
    /\ UNCHANGED <<fetch_vars, pipe_vars, request, rotator_vars, extract_vars,
                   epo_vars, log_vars>>

\* lines 247-250: the other queries end with the patent results
NextQuery ==
    /\ d_pc = "results"
    /\ d_pending = <<>>
    /\ d_query % 10 # 0
    /\ d_query' = d_query + 1
    /\ d_pc' = "query"
    /\ UNCHANGED <<d_pending, all_wo_numbers, wo_list>>
    /\ UNCHANGED <<fetch_vars, pipe_vars, request, rotator_vars, extract_vars,
                   epo_vars, log_vars>>

\* lines 268-270
ReturnList ==
    /\ d_pc = "query"
    /\ d_query = MaxQueries
    /\ wo_list' = <<Sorted(all_wo_numbers)>>
    /\ d_pc' = "returned"
    /\ UNCHANGED <<d_query, d_pending, all_wo_numbers>>
    /\ UNCHANGED <<fetch_vars, pipe_vars, request, rotator_vars, extract_vars,
                   epo_vars, log_vars>>

DiscoverNext ==
    \/ QueryPatents
    \/ ReadHit
    \/ ReadHitRaises
    \/ WebSearch
    \/ NextQuery
    \/ ReturnList

(***************************************************************************)
(* Calls of extract_wo_numbers: on a text, then on an identifier the      *)
(* first call returned.                                                   *)
(***************************************************************************)
\* lines 147-167 on the text
ExtractCall ==
    /\ e_pc = "called"
    /\ e_out' = extract_wo_numbers(e_arg)
    /\ e_pc' = "extracted"
    /\ UNCHANGED <<e_input, e_arg>>
    /\ UNCHANGED <<fetch_vars, pipe_vars, request, rotator_vars, discovery_vars,
                   epo_vars, log_vars>>

\* lines 147-167 on an identifier the call returned
Reapply ==
    /\ e_pc = "extracted"
    /\ \E wo \in e_out :
          /\ e_arg' = wo
          /\ e_out' = extract_wo_numbers(wo)
    /\ e_pc' = "reapplied"
    /\ UNCHANGED e_input
    /\ UNCHANGED <<fetch_vars, pipe_vars, request, rotator_vars, discovery_vars,
                   epo_vars, log_vars>>

ExtractNext ==
    \/ ExtractCall
    \/ Reapply

ExtractStart ==
    /\ FetchInit
    /\ PipeInit
    /\ request = NoRequest
    /\ RotatorInit
    /\ EpoInit
    /\ LogInit
    /\ DiscoveryInit
    /\ e_pc = "called"
    /\ e_input \in Texts
    /\ e_arg = e_input
    /\ e_out = {}

(***************************************************************************)
(* search_patents from line 747 on, entered after the resolution of one   *)
(* identifier whose payload holds many BR applications.                   *)
(***************************************************************************)
DigitChars == <<"0", "1", "2", "3", "4", "5", "6", "7", "8", "9">>

\* str(n)
RECURSIVE Decimal(_)
Decimal(n) ==
    IF n < 10 THEN <<DigitChars[n + 1]>>
    ELSE Decimal(n \div 10) \o <<DigitChars[(n % 10) + 1]>>

MaxBrRecords == 52

\* a detail payload whose one year holds the applications BRn, ..., BR2, BR1
ManyBrPayload(n) ==
    Detail(Year("2016", [k \in 1..n |-> Doc(<<"B", "R">> \o Decimal(n + 1 - k))]),
           <<>>, <<>>, <<>>, <<>>)

\* line 747 is reached: the one identifier was resolved from ManyBrPayload(n)
\* by the direct method and its records were collected
AfterExtraction(n) ==
    LET wo == WoUniverse[1]
        res == DirectResult(NewResult(wo), ManyBrPayload(n))
    IN  /\ p_pc = "extract"
        /\ wo_numbers = <<wo>>
        /\ wi = 2
        /\ r_pc = "idle"
        /\ result = NoResult
        /\ patent_data = Blank
        /\ search_data = Blank
        /\ fetches = <<[wo |-> wo, step |-> "direct", exhausted |-> FALSE,
                        empty |-> FALSE, tagged |-> FALSE, results |-> 0,
                        followed |-> 0]>>
        /\ wo_results = <<res>>
        /\ all_worldwide_patents = CollectInto(<<>>, res.worldwide_patents, wo)
        /\ all_br_patents = CollectInto(<<>>, res.br_patents, wo)
        /\ br_with_details = <<>>
        /\ inpi_patents = <<>>
        /\ epo_patents = <<>>
        /\ final_br = <<>>
        /\ report = <<>>

MergeInit ==
    /\ FetchInit
    /\ \E n \in 0..MaxBrRecords : AfterExtraction(n)
    /\ request = NoRequest
    /\ RotatorInit
    /\ EpoInit
    /\ LogInit
    /\ DiscoveryInit
    /\ ExtractIdle

MergeNext ==
    \/ DetailBrPatents
    \/ InpiSearch
    \/ EpoNoToken
    \/ EpoSearch
    \/ MergeAndReport

(***************************************************************************)
(* The trace log of a request: debug_log of line 704, appended to by      *)
(* every stage, and cut at line 872 when the report is built.             *)
(***************************************************************************)
MaxLogShown == 100

MaxEvents == 103

\* s[:n] of the log
FirstN(s, n) == SubSeq(s, 1, IF Len(s) < n THEN Len(s) ELSE n)

\* s[-n:] of the log (n > 0)
LastN(s, n) == SubSeq(s, IF Len(s) < n THEN 1 ELSE Len(s) - n + 1, Len(s))

\* debug_log.append(...): one more event, numbered in the order of logging
LogEvent ==
    /\ log_tail = <<>>
    /\ Len(debug_log) < MaxEvents
    /\ debug_log' = Append(debug_log, Len(debug_log) + 1)
    /\ UNCHANGED log_tail
    /\ UNCHANGED <<fetch_vars, pipe_vars, request, rotator_vars, discovery_vars,
                   extract_vars, epo_vars>>

\* line 872: "debug_log": debug_log[-100:]
ReturnLog ==
    /\ log_tail = <<>>
    /\ log_tail' = <<LastN(debug_log, MaxLogShown)>>
    /\ UNCHANGED debug_log
    /\ UNCHANGED <<fetch_vars, pipe_vars, request, rotator_vars, discovery_vars,
                   extract_vars, epo_vars>>

LogNext ==
    \/ LogEvent
    \/ ReturnLog

\* a request arrives at search_patents
PipelineStart ==
    /\ FetchInit
    /\ PipeInit
    /\ request \in Requests
    /\ RotatorInit
    /\ EpoInit
    /\ LogInit
    /\ DiscoveryInit
    /\ ExtractIdle

(***************************************************************************)
(* Specifications: one http_get call, one request, and the merge phase of *)
(* a request.                                                             *)
(***************************************************************************)
SpecFetch == Init /\ [][FetchNext]_vars

SpecPipeline == PipelineStart /\ [][PipeNext]_vars

SpecMerge == MergeInit /\ [][MergeNext]_vars

SpecRotator == Init /\ [][RotatorNext]_vars

SpecExtract == ExtractStart /\ [][ExtractNext]_vars

SpecDiscover == Init /\ [][DiscoverNext]_vars

SpecLog == Init /\ [][LogNext]_vars

(***************************************************************************)
(* http_get: the contract of one call (SpecFetch).                        *)
(***************************************************************************)
\* the call has stopped after three failed attempts
Exhausted == h_pc = "returned" /\ AllFailed(history)

\* C1: http_get never raises to its caller.  Whatever its attempts meet
\* (a JSON answer, 429, 403, another error status, a timeout or connection
\* error, an unparsable body), no exception leaves the call, and a call that
\* has stopped has returned exactly one value, the one http_get computes from
\* the outcomes its attempts met.
C1_NeverRaises ==
    /\ h_pc # "raised"
    /\ ~HttpGet(history).raised
    /\ h_pc = "returned" => ret = <<HttpGet(history).ret>>

\* three attempts failed, the last with an unparsable body, and the call
\* returned a value
C1_Witness ==
    /\ h_pc = "returned"
    /\ Len(history) = MaxAttempts
    /\ history[MaxAttempts].kind = "bad_body"
    /\ Len(ret) = 1

\* C2 as the specification states it: when all three attempts fail, the value
\* returned is falsy for the caller and carries the failure tag "error".
C2_ExhaustedIsTagged ==
    Exhausted => /\ "error" \in ret[1].keys
                 /\ ~PayloadOK(ret[1])

\* C3: one call issues at most three requests; every request but the last
\* one of the call met a rate limit, a forbidden answer or another failure;
\* and once a request succeeded the call has returned its body, so that no
\* request follows it.
C3_RetryOnlyAfterFailure ==
    /\ Len(history) <= MaxAttempts
    /\ \A i \in 1..(Len(history) - 1) : history[i].kind \in FailureKinds
    /\ \A i \in 1..Len(history) :
          history[i].kind = "ok" =>
              /\ i = Len(history)
              /\ h_pc = "returned"
              /\ ret = <<history[i].body>>

\* a rate limit, then a timeout, then a success that is returned
C3_Witness ==
    /\ h_pc = "returned"
    /\ Len(history) = MaxAttempts
    /\ history[1].kind = "rate_limit"
    /\ history[2].kind = "timeout"
    /\ history[3].kind = "ok"
    /\ ret = <<history[3].body>>
    /\ waits = <<[attempt |-> 0, secs |-> 2], [attempt |-> 1, secs |-> 1]>>

(***************************************************************************)
(* Resolution of one identifier and the aggregate of a request            *)
(* (SpecPipeline).                                                        *)
(***************************************************************************)
\* the fetches issued for identifier wo, in order
FetchesOf(wo) == SelectSeq(fetches, LAMBDA e : e.wo = wo)

\* the fetches of one step issued for identifier wo
StepsOf(wo, step) == SelectSeq(FetchesOf(wo), LAMBDA e : e.step = step)

\* the results built so far: the i-th is the result for wo_numbers[i]
Resolved == wo_results \o (IF r_pc = "Returned" THEN <<result>> ELSE <<>>)

\* the payload of a fetch is present and has no failure tag
Untagged(e) == ~e.empty /\ ~e.tagged

TerminalStatuses ==
    {"success", "no_national_patents", "no_br_patents", "skipped", "error"}

C5_TerminalOnce ==
    /\ Len(Resolved) <= Len(wo_numbers)
    /\ \A i \in 1..Len(Resolved) :
          /\ Resolved[i].status \in TerminalStatuses
          /\ Resolved[i].wo_number = wo_numbers[i]
    /\ \A k \in 1..Len(wo_numbers) :
          \A step \in {"direct", "search", "link"} :
              Len(StepsOf(wo_numbers[k], step)) <= 1
    /\ Len(fetches) <= 3 * Len(wo_numbers)
    /\ report # <<>> =>
          /\ Len(report[1].summary) = Len(wo_numbers)
          /\ \A i \in 1..Len(wo_numbers) :
                /\ report[1].summary[i].wo = wo_numbers[i]
                /\ report[1].summary[i].status \in TerminalStatuses

\* the report of a request with two identifiers: the first one took the
\* direct fetch, the keyword search and the deep-link fetch and was skipped,
\* the second one was resolved
C5_Witness ==
    /\ report # <<>>
    /\ Len(wo_numbers) = 2
    /\ Len(report[1].summary) = 2
    /\ Len(FetchesOf(wo_numbers[1])) = 3
    /\ report[1].summary[1].status = "skipped"
    /\ report[1].summary[2].status = "success"

\* the first search result that advertises identifier wo, else the first one
FirstMatch(organic, wo) ==
    LET matching == {i \in 1..Len(organic) : organic[i].publication_number = wo}
    IN  IF matching = {} THEN 1
        ELSE CHOOSE i \in matching : \A j \in matching : i <= j

\* C6 as the specification states it: when the fallback follows a deep
\* link, the link is the one of the first search result that advertises the
\* identifier being resolved, and the one of the first result overall only
\* when no result advertises it.
C6_FollowsFirstMatch ==
    [][(r_pc = "SearchAttempted" /\ Len(fetches') > Len(fetches)) =>
          fetches'[Len(fetches')].followed =
              FirstMatch(Get(search_data, "organic_results", <<>>), wo_numbers[wi])]_vars

\* the step at which the skipped resolution of the i-th identifier failed
FailingStep(i) ==
    LET fs == FetchesOf(wo_numbers[i])
    IN  IF Len(fs) = 3 THEN "fetch-failed"
        ELSE IF fs[2].results = 0 THEN "no-search-results"
        ELSE "no-link-found"

\* C7 as the specification states it: a skipped resolution records a reason,
\* and two resolutions that failed at different steps (no search results, no
\* deep link on the selected result, deep-link fetch failed) record
\* different reasons.
C7_DistinctReasons ==
    \A i, j \in 1..Len(Resolved) :
        (Resolved[i].status = "skipped" /\ Resolved[j].status = "skipped") =>
            /\ Resolved[i].has_reason
            /\ FailingStep(i) # FailingStep(j) =>
                   Resolved[i].reason # Resolved[j].reason

\* C8 as the specification states it: when every fetch issued for an
\* identifier failed on all its attempts, the result for the identifier has
\* a failed status and a recorded reason.
C8_FailedWhenAllFetchesFail ==
    \A i \in 1..Len(Resolved) :
        LET fs == FetchesOf(wo_numbers[i])
        IN  (fs # <<>> /\ \A n \in 1..Len(fs) : fs[n].exhausted) =>
                /\ Resolved[i].status \in {"skipped", "error"}
                /\ Resolved[i].has_reason

\* no two records of the list have the same normalized number
UniqueNumbers(records) ==
    \A i, j \in 1..Len(records) :
        i # j => Normalize(records[i].number) # Normalize(records[j].number)

\* C9: in the merged BR list, and in the BR list of the report, no two
\* records have the same normalized number (whitespace, hyphen and slash
\* stripped, uppercased), whatever the resolution of the identifiers, the
\* national registry and the regional office contributed.
C9_MergedBrUnique ==
    /\ UniqueNumbers(final_br)
    /\ report # <<>> => UniqueNumbers(report[1].br_patents)

\* the three sources brought numbers that normalize to the same value, two
\* of them in the records of the resolution alone, and the merged list kept
\* fewer records than the sources gave
C9_Witness ==
    /\ report # <<>>
    /\ Len(br_with_details) >= 2
    /\ ~UniqueNumbers(br_with_details)
    /\ inpi_patents # <<>>
    /\ epo_patents # <<>>
    /\ Norms(inpi_patents) \cap Norms(br_with_details) # {}
    /\ Norms(epo_patents) \cap Norms(br_with_details) # {}
    /\ final_br # <<>>
    /\ Len(final_br) < Len(br_with_details)

\* C10 as the specification states it: no two records of the aggregated
\* worldwide list have the same normalized document id.
C10_WorldwideUnique ==
    \A i, j \in 1..Len(all_worldwide_patents) :
        i # j => Normalize(all_worldwide_patents[i].document_id.s)
                     # Normalize(all_worldwide_patents[j].document_id.s)

(***************************************************************************)
(* Precedence of the sources.                                             *)
(***************************************************************************)
\* the normalized ids of the BR records that resolution collected
InternationalNorms ==
    {Normalize(all_br_patents[i].document_id.s) : i \in 1..Len(all_br_patents)}

\* C11 as the specification states it: a record of the merged BR list whose
\* normalized number was produced by the resolution of an identifier carries
\* the source of that resolution, however many BR records resolution
\* produced; a number produced by both registries and not by resolution
\* carries the source of the national registry.
C11_InternationalSourceWins ==
    \A i \in 1..Len(final_br) :
        LET norm == Normalize(final_br[i].number)
        IN  /\ norm \in InternationalNorms =>
                  final_br[i].source = "wo_extraction"
            /\ (norm \notin InternationalNorms /\ norm \in Norms(inpi_patents)) =>
                  final_br[i].source = "inpi_direct"

(***************************************************************************)
(* The records of the substructures.                                      *)
(***************************************************************************)
\* the place of a substructure in the order of lines 336-427
SourceRank(source) ==
    CASE source = "worldwide_applications" -> 1
      [] source = "family_members"         -> 2
      [] source = "also_published_as"      -> 3
      [] source = "similar_documents"      -> 4
      [] source = "citations"              -> 5
      [] OTHER                             -> 6

\* every occurrence of doc_id in the list has a source that ranks no higher
\* than the source of the retained record
NoHigherSource(retained, records) ==
    \A j \in 1..Len(records) :
        records[j].document_id = retained.document_id =>
            SourceRank(retained.source) <= SourceRank(records[j].source)

\* C12 as the specification states it: a record of the aggregated lists
\* carries the source of the highest-precedence substructure that produced
\* its id for any identifier of the request, whatever the order in which the
\* identifiers were processed.
C12_HighestPrecedenceRetained ==
    /\ \A i \in 1..Len(all_worldwide_patents) : \A k \in 1..Len(wo_results) :
           NoHigherSource(all_worldwide_patents[i], wo_results[k].worldwide_patents)
    /\ \A i \in 1..Len(all_br_patents) : \A k \in 1..Len(wo_results) :
           NoHigherSource(all_br_patents[i], wo_results[k].br_patents)

\* no two records of the list have the same normalized document id
UniqueDocIds(records) ==
    \A i, j \in 1..Len(records) :
        (i # j /\ records[i].document_id.t = "str" /\ records[j].document_id.t = "str")
            => Normalize(records[i].document_id.s) # Normalize(records[j].document_id.s)

\* C13 as the specification states it: within the records extracted from one
\* payload no two records share a normalized document id.
C13_PayloadRecordsUnique ==
    \A k \in 1..Len(Resolved) :
        Resolved[k].status = "success" =>
            /\ UniqueDocIds(Resolved[k].worldwide_patents)
            /\ UniqueDocIds(Resolved[k].br_patents)

\* C14 as the specification states it: the records extracted from a payload
\* do not depend on the resolution method, so the lists the direct method
\* extracts from its payload are the lists the chained method extracts from
\* the same payload.
C14_SameRecordsOnBothPaths ==
    [][(r_pc = "DirectAttempted" /\ r_pc' = "Returned")
          => WithLists(result', ExtractChained(patent_data)) = result']_vars

\* s[0:2]
FirstTwo(s) == [i \in 1..(IF Len(s) < 2 THEN Len(s) ELSE 2) |-> s[i]]

\* the office code of the record is the first two characters of its id; a
\* record whose id is null has no characters to take and an empty code
OfficeCodeOK(rec) ==
    IF rec.document_id.t = "str"
    THEN rec.country = FirstTwo(rec.document_id.s)
    ELSE rec.country = <<>>

AllOfficeCodesOK(records) == \A i \in 1..Len(records) : OfficeCodeOK(records[i])

\* C15: every record extraction emits, from any substructure and on either
\* resolution path, has an office code equal to the first two characters of
\* its document id, in the lists of each result and in the aggregated lists.
C15_OfficeCodeIsPrefix ==
    /\ \A k \in 1..Len(Resolved) :
           /\ AllOfficeCodesOK(Resolved[k].worldwide_patents)
           /\ AllOfficeCodesOK(Resolved[k].br_patents)
           /\ AllOfficeCodesOK(Resolved[k].family_members)
    /\ AllOfficeCodesOK(all_worldwide_patents)
    /\ AllOfficeCodesOK(all_br_patents)

\* both paths resolved an identifier, the aggregate holds a record whose id
\* is in lower case, and a BR record that came from the sampled substructures
C15_Witness ==
    /\ \E k \in 1..Len(wo_results) :
           /\ wo_results[k].extraction_method = "serpapi_link_chain"
           /\ wo_results[k].worldwide_patents # <<>>
    /\ \E k \in 1..Len(wo_results) :
           /\ wo_results[k].extraction_method = "direct_details"
           /\ \E i \in 1..Len(wo_results[k].br_patents) :
                  wo_results[k].br_patents[i].source \in {"similar_documents", "citations"}
    /\ \E i \in 1..Len(all_worldwide_patents) :
           all_worldwide_patents[i].document_id = Str(us1)

(***************************************************************************)
(* The key rotator.                                                       *)
(***************************************************************************)
\* how many times get_key returned the key
TimesHanded(key) == Cardinality({i \in 1..Len(handed) : handed[i].key = key})

\* the callers that advanced the cursor and did not return yet
PastAdvance == {c \in Callers : c_pc[c] = "release"}

\* C16: under any interleaving of the callers of get_key no advance of the
\* cursor is lost: the cursor equals the number of calls that advanced it,
\* so k after k completed calls; the call that entered the critical section
\* i-th, counting from 0, is handed pool[i mod N]; and the numbers of times
\* any two keys were handed out differ by at most 1.
C16_NoLostAdvance ==
    /\ index = Len(handed) + Cardinality(PastAdvance)
    /\ (\A c \in Callers : c_pc[c] = "idle") => index = Len(handed)
    /\ \A i \in 1..Len(handed) : handed[i].key = KeyAt(handed[i].ticket)
    /\ \A c \in Callers : c_pc[c] \in {"incr", "release"} => c_key[c] = KeyAt(c_ticket[c])
    /\ \A i, j \in 1..Len(SERPAPI_KEYS) :
           TimesHanded(SERPAPI_KEYS[i]) - TimesHanded(SERPAPI_KEYS[j]) <= 1

\* the pool went round once, more than one caller was served, and a caller
\* waits for the lock that another caller holds
C16_Witness ==
    /\ Len(handed) > Len(SERPAPI_KEYS)
    /\ Cardinality({c \in Callers : calls[c] > 0}) > 1
    /\ \E c \in Callers : c_pc[c] = "acquire" /\ lock \notin {0, c}

(***************************************************************************)
(* The extraction of identifiers from text.                               *)
(***************************************************************************)
\* WO, a four-digit year, a six-digit serial, and nothing else
IsCanonical(s) ==
    /\ Len(s) = 12
    /\ s[1] = "W"
    /\ s[2] = "O"
    /\ \A i \in 3..12 : IsDigit(s[i])

WO2016096610 == <<"W", "O", "2", "0", "1", "6", "0", "9", "6", "6", "1", "0">>

\* "WO2016/096610", "WO 2016-096610", "WO2016096610A1", "PCT/IB2016/096610"
EquivalentForms == {<<"W", "O", "2", "0", "1", "6", "/", "0", "9", "6", "6", "1", "0">>, <<"W", "O", " ", "2", "0", "1", "6", "-", "0", "9", "6", "6", "1", "0">>, <<"W", "O", "2", "0", "1", "6", "0", "9", "6", "6", "1", "0", "A", "1">>, <<"P", "C", "T", "/", "I", "B", "2", "0", "1", "6", "/", "0", "9", "6", "6", "1", "0">>}

\* C18 as the specification states it: each of the four strings
\* canonicalizes, through extract_wo_numbers, to exactly the one identifier
\* WO2016096610.
C18_FourFormsCanonicalize ==
    (e_pc = "extracted" /\ e_arg \in EquivalentForms) => e_out = {WO2016096610}

\* C19: extract_wo_numbers applied to a canonical identifier returns exactly
\* that identifier, so applying it to an identifier it returned gives that
\* identifier again and nothing else.
C19_CanonicalIsFixed ==
    /\ (e_pc = "extracted" /\ IsCanonical(e_arg)) => e_out = {e_arg}
    /\ e_pc = "reapplied" => (IsCanonical(e_arg) /\ e_out = {e_arg})

\* an identifier extracted from a text that was not canonical itself was
\* given to the extractor again
C19_Witness ==
    /\ e_pc = "reapplied"
    /\ ~IsCanonical(e_input)
    /\ e_arg # e_input
    /\ e_out = {e_arg}

\* C17 as the specification states it: every identifier of the list
\* discovery hands to resolution is in canonical form, whatever the titles
\* and publication numbers of the search results.
C17_DiscoveredAreCanonical ==
    wo_list # <<>> => \A i \in 1..Len(wo_list[1]) : IsCanonical(wo_list[1][i])

(***************************************************************************)
(* The errors of a request.                                               *)
(***************************************************************************)
\* the substance name is missing, empty or only whitespace
NameMissing(body) ==
    \/ body.nome_molecula.t # "str"
    \/ Strip(body.nome_molecula.s) = <<>>

\* C20 as the specification states it: a request ends in an error only by
\* the client error for a missing, empty or blank substance name, which is
\* raised before any fetch was issued; no request ends in another error.
C20_OnlyMissingNameIsAnError ==
    /\ p_pc # "crashed"
    /\ p_pc = "rejected" => (NameMissing(request) /\ fetches = <<>>)

(***************************************************************************)
(* The waits of http_get.                                                 *)
(***************************************************************************)
\* the rate-limit waits after the first, second and third attempt
RateLimitWaits == <<2, 4, 8>>

\* the attempts of history that met the kinds of outcome
AttemptsThatMet(kinds) == {k \in 1..Len(history) : history[k].kind \in kinds}

\* C23: a rate-limit response is followed by a wait of 2^n seconds, n the
\* number of attempts made so far in the call (2 after the first, 4 after the
\* second), so successive rate-limit waits double; a forbidden response is
\* followed by a wait of one second, and the wait after any other failure is
\* one second too, whatever the attempt.
C23_BackoffWaits ==
    /\ \A i \in 1..Len(waits) :
           /\ waits[i].attempt + 1 \in 1..Len(history)
           /\ IF history[waits[i].attempt + 1].kind = "rate_limit"
              THEN waits[i].secs = RateLimitWaits[waits[i].attempt + 1]
              ELSE waits[i].secs = 1
    /\ \A k \in AttemptsThatMet({"rate_limit", "forbidden"}) :
           \E i \in 1..Len(waits) : waits[i].attempt = k - 1
    /\ \A i, j \in 1..Len(waits) :
           (/\ waits[j].attempt = waits[i].attempt + 1
            /\ history[waits[i].attempt + 1].kind = "rate_limit"
            /\ history[waits[j].attempt + 1].kind = "rate_limit")
               => waits[j].secs = 2 * waits[i].secs

\* two rate-limit responses and then a forbidden one, each followed by a wait
C23_Witness ==
    /\ Len(history) = 3
    /\ history[1].kind = "rate_limit"
    /\ history[2].kind = "rate_limit"
    /\ history[3].kind = "forbidden"
    /\ Len(waits) = 3

\* C28 as the specification states it: http_get waits only between attempts;
\* after the final attempt failed, whatever the failure, it returns without
\* another wait.
C28_NoWaitAfterFinalAttempt ==
    \A i \in 1..Len(waits) : waits[i].attempt < MaxAttempts - 1

(***************************************************************************)
(* The two entry points.                                                  *)
(***************************************************************************)
\* the body of the primary request for the same name and brand: a brand that
\* is omitted is a key the body does not hold
PrimaryBody(molecule, brand) ==
    [nome_molecula |-> molecule,
     nome_comercial |-> IF brand = Null THEN Absent ELSE brand]

\* how lines 706-710 end for a body: "start" when the request goes on
EntryOutcome(body) ==
    IF StripRaises(body) THEN "crashed"
    ELSE IF Molecule(body) = <<>> THEN "rejected"
    ELSE "start"

\* C21 as the specification states it: the path-parameter variant does what
\* the primary request does for the same name and brand, the brand supplied
\* or omitted; so when the variant ends without a report, the primary
\* request for that name and brand ends the same way.
C21_VariantEndsAsPrimary ==
    \A body \in Requests :
        (/\ body.nome_molecula.t = "str"
         /\ body.nome_comercial.t \in {"null", "str"}
         /\ request = search_by_url(body.nome_molecula, body.nome_comercial)
         /\ p_pc \in {"crashed", "rejected"})
            => p_pc = EntryOutcome(PrimaryBody(body.nome_molecula, body.nome_comercial))

(***************************************************************************)
(* The budget of a request.                                               *)
(***************************************************************************)
BudgetInFetches == 2

\* C22 as the specification states it: once the overall budget has expired
\* no new fetch is started.  The fetches of resolution are awaited one after
\* another and each lasts at least one unit of time, so with a budget of
\* BudgetInFetches units no more than that many fetches are ever started.
C22_NoFetchAfterBudget == Len(fetches) <= BudgetInFetches

(***************************************************************************)
(* The order of the report.                                               *)
(***************************************************************************)
\* the keys do not decrease
NonDecreasing(keys) ==
    \A i \in 1..(Len(keys) - 1) : keys[i] = keys[i + 1] \/ Before(keys[i], keys[i + 1])

\* C24 as the specification states it: the record lists of the report are
\* emitted in sorted order, by normalized id or by office code (the records
\* that have an id are looked at).
C24_ReportListsSorted ==
    report # <<>> =>
        LET ww == SelectSeq(report[1].worldwide_patents,
                            LAMBDA rec : rec.document_id.t = "str")
        IN  \/ NonDecreasing([i \in 1..Len(ww) |-> Normalize(ww[i].document_id.s)])
            \/ NonDecreasing([i \in 1..Len(ww) |-> ww[i].country])

(***************************************************************************)
(* The records of failed results.                                         *)
(***************************************************************************)
\* the records of the list come from results that did not fail
FromResultsThatDidNotFail(records) ==
    \A i \in 1..Len(records) : \A k \in 1..Len(wo_results) :
        wo_results[k].wo_number = records[i].from_wo =>
            wo_results[k].status \notin {"skipped", "error"}

\* C27 as the specification states it: a result whose status is skipped or
\* error contributes no records to the aggregated worldwide and BR lists.
C27_FailedResultsContributeNothing ==
    /\ FromResultsThatDidNotFail(all_worldwide_patents)
    /\ FromResultsThatDidNotFail(all_br_patents)

(***************************************************************************)
(* The credential exchange of the regional office.                        *)
(***************************************************************************)
\* C25: when the credential exchange gave no token, no search request was
\* sent, the lookup's list is empty, and the report is made of the records
\* of the other sources as they were: its BR list is the merge of the
\* detailed BR records and the INPI records, and its INPI list is the list
\* the INPI search returned.
C25_NoTokenNoQuery ==
    (p_pc \in {"merge", "done"} /\ token = "") =>
        /\ epo_queries = 0
        /\ epo_patents = <<>>
        /\ p_pc = "done" =>
              /\ report # <<>>
              /\ report[1].epo_results = <<>>
              /\ report[1].inpi_direct_results = inpi_patents
              /\ report[1].br_patents = MergeBr(br_with_details, inpi_patents, <<>>)
              /\ report[1].worldwide_total = Len(all_worldwide_patents)

\* a report built after a failed credential exchange, with records of the
\* other sources in it
C25_Witness ==
    /\ p_pc = "done"
    /\ token = ""
    /\ epo_queries = 0
    /\ inpi_patents # <<>>
    /\ br_with_details # <<>>
    /\ report # <<>>
    /\ report[1].br_patents # <<>>

(***************************************************************************)
(* The trace log of the report.                                           *)
(***************************************************************************)
\* C26: the trace log of the report has at most 100 entries, and they are
\* the last events logged, in the order they were logged, however many
\* events the request logged.
C26_LogBoundedAndTrailing ==
    log_tail # <<>> =>
        LET shown == log_tail[1]
            n == Len(debug_log)
        IN  /\ Len(shown) <= 100
            /\ Len(shown) = IF n < 100 THEN n ELSE 100
            /\ \A i \in 1..Len(shown) : shown[i] = n - Len(shown) + i

\* a report of a request that logged more than 100 events
C26_Witness ==
    /\ log_tail # <<>>
    /\ Len(debug_log) > 100
    /\ Len(log_tail[1]) = 100
    /\ log_tail[1][1] = Len(debug_log) - 99

====
